---- MODULE Spec2Model ----
(***************************************************************************)
(* The mortgage calculator of python/MortgageCalculator/mortgage.py.       *)
(*                                                                         *)
(* Money and rates are exact rationals [n |-> numerator, d |-> denominator]*)
(* in lowest terms, so the arithmetic of the code is followed without its  *)
(* floating-point rounding.  A monthly growth factor (x)**(1./12) is held  *)
(* exactly, as the real number whose 12th power is x; it is evaluated by a *)
(* root search when the code multiplies by it.  The effective rate of the  *)
(* scan is an integer number of 1e-5 percent, the scan's smallest step.    *)
(***************************************************************************)
EXTENDS Integers, Sequences, FiniteSets, TLC

VARIABLES
    args,           \* the arguments the constructor was called with
    self,           \* the constructed object (a Mortgage or a MortgageSequence)
    pc,             \* "new", "idle", "scan" (in effective_rate_after), "returned", "raised"
    call,           \* the query last called on self, and its argument
    result,         \* what the last call returned or raised
    loan,           \* effective_rate_after: the target balance (local `loan`)
    effectiverate,  \* effective_rate_after: local, in units of 1e-5 percent
    deltarate,      \* effective_rate_after: local, in units of 1e-5 percent
    meff,           \* effective_rate_after: the probe object of the last iteration
    rstar           \* the rate at which the probe's balance crosses the target

vars == <<args, self, pc, call, result, loan, effectiverate, deltarate, meff, rstar>>

-----------------------------------------------------------------------------
(* Bounds of the model.                                                    *)

MaxHouseValue == 1
MaxLoan == 3
MaxFee == 2
MaxCashback == 1
MaxTermYears == 2
MaxPeriodYears == 2
MaxPeriods == 2
MaxRoot == 3
Overrun == 2
MaxDigit == 1
IntBits == 24

(* Constants of the program.                                               *)

MonthsPerYear == 12
Percent == 100
RateScale == 100000
StartRate == 10000
StartDelta == 10000
StopDelta == 1
Shrink == 10
MinPeriods == 2

-----------------------------------------------------------------------------
(* Exact rational arithmetic.                                              *)

Abs(a) == IF a < 0 THEN -a ELSE a

Max(a, b) == IF a < b THEN b ELSE a

RECURSIVE GCD(_, _)
GCD(a, b) == IF b = 0 THEN a ELSE GCD(b, a % b)

\* a/b cancelled by g, the denominator positive
Cancel(a, b, g) == IF b < 0 THEN [n |-> -(a \div g), d |-> -(b \div g)]
                   ELSE [n |-> a \div g, d |-> b \div g]

Rat(a, b) == Cancel(a, b, GCD(Abs(a), Abs(b)))

Zero == Rat(0, 1)

One == Rat(1, 1)

\* x + y over the least common denominator, g the gcd of the denominators
AddOver(x, y, g) == Rat(x.n * (y.d \div g) + y.n * (x.d \div g), (x.d \div g) * y.d)

Add(x, y) == AddOver(x, y, GCD(x.d, y.d))

Neg(x) == [n |-> -x.n, d |-> x.d]

Sub(x, y) == Add(x, Neg(y))

\* x * y cancelled crosswise before the products are taken
MulOver(x, y, g1, g2) ==
    [n |-> (x.n \div g1) * (y.n \div g2), d |-> (x.d \div g2) * (y.d \div g1)]

Mul(x, y) == MulOver(x, y, GCD(Abs(x.n), y.d), GCD(Abs(y.n), x.d))

Inv(x) == Rat(x.d, x.n)

Div(x, y) == Mul(x, Inv(y))

Less(x, y) == Sub(x, y).n < 0

Pow(x, k) == [n |-> x.n ^ k, d |-> x.d ^ k]

\* sum(x**n for n in xrange(0, k)), on the running state [n, total]
RECURSIVE SumLoop(_, _, _)
SumLoop(st, x, k) ==
    IF st.n >= k THEN st.total
    ELSE SumLoop([n |-> st.n + 1, total |-> Add(st.total, Pow(x, st.n))], x, k)

SumPow(x, k) == SumLoop([n |-> 0, total |-> Zero], x, k)

RootCandidates == {Rat(p, q) : p \in 1..MaxRoot, q \in 1..MaxRoot}

Root(x, k) == CHOOSE r \in RootCandidates : Pow(r, k) = x

-----------------------------------------------------------------------------
(* Values returned or raised by a call.                                    *)

Ret(v) == [kind |-> "value", val |-> v]

NoneValue == [kind |-> "None", val |-> Zero]

Raise(e) == [kind |-> e, val |-> Zero]

NoObject == [kind |-> "none"]

Failed(e) == [ok |-> FALSE, obj |-> NoObject, err |-> e]

Built(obj) == [ok |-> TRUE, obj |-> obj, err |-> ""]

-----------------------------------------------------------------------------
(* class Mortgage                                                          *)

\* (rate/100. + 1.)**(1./12): the real number whose 12th power is rate/100 + 1
MonthlyRate(rate) == [root12of |-> Add(Div(rate, Rat(Percent, 1)), One)]

\* the monthly factor as a number, where the code computes with it
Value(rate) == Root(rate.root12of, MonthsPerYear)

\* Mortgage.__init__ up to the call of calc_repayment
MortgageFields(housevalue, principal, rate, term, fee, cashback, borrowfee) ==
    [kind        |-> "Mortgage",
     housevalue  |-> housevalue,
     rate        |-> MonthlyRate(rate),
     term        |-> term * MonthsPerYear,
     initloan    |-> principal,
     loan        |-> IF borrowfee THEN Add(principal, fee) ELSE principal,
     cashbalance |-> IF borrowfee THEN cashback ELSE Sub(cashback, fee),
     repayment   |-> Zero,
     mortgages   |-> <<>>]

\* sum(self.rate**n for n in xrange(0, self.term)) is 0 for an empty range, and
\* the division by it raises ZeroDivisionError
CalcRepaymentRaises(m) == SumPow(Value(m.rate), m.term) = Zero

\* Variant: the repayment covers the interest of one month and nothing of the loan
CalcRepaymentInterestOnly(m) == Mul(m.loan, Sub(Value(m.rate), One))

CalcRepayment(m) ==
    Div(Mul(m.loan, Pow(Value(m.rate), m.term)), SumPow(Value(m.rate), m.term))

\* self.calc_repayment() at the end of Mortgage.__init__
WithRepayment(m) ==
    IF CalcRepaymentRaises(m)
    THEN Failed("ZeroDivisionError")
    ELSE Built([m EXCEPT !.repayment = CalcRepayment(m)])

Mortgage(housevalue, principal, rate, term, fee, cashback, borrowfee) ==
    WithRepayment(MortgageFields(housevalue, principal, rate, term, fee, cashback,
                                 borrowfee))

\* the loop of remaining_loan on its local `loan`: interest, then the payment
\* on the running state [i, loan]
RECURSIVE Payments(_, _, _, _)
Payments(st, rate, repayment, npayments) ==
    IF st.i >= npayments THEN st.loan
    ELSE Payments([i |-> st.i + 1, loan |-> Sub(Mul(st.loan, rate), repayment)],
                  rate, repayment, npayments)

\* Variant: the loop of line 49 stops at the end of the term, xrange(min(npayments,
\* self.term))
MortgageRemainingLoanToTerm(m, npayments) ==
    IF npayments <= 0 THEN m.loan
    ELSE Payments([i |-> 0, loan |-> m.loan], Value(m.rate), m.repayment,
                  IF npayments < m.term THEN npayments ELSE m.term)

MortgageRemainingLoan(m, npayments) ==
    IF npayments <= 0 THEN m.loan
    ELSE Payments([i |-> 0, loan |-> m.loan], Value(m.rate), m.repayment, npayments)

LoanToValue(m) ==
    IF m.housevalue = Zero THEN Raise("ZeroDivisionError")
    ELSE Ret(Div(m.loan, m.housevalue))

-----------------------------------------------------------------------------
(* effective_rate_after: the scan for the effective rate.                  *)
(*                                                                         *)
(* The probe of rate R is Mortgage(housevalue, initloan, R, term, 0.) with *)
(* the repayment of self.  After npayments = 0 payments its balance is its *)
(* loan whatever R is, and the comparison with the target is exact.  After *)
(* npayments >= 1 payments its balance is                                  *)
(*     initloan * r^n - repayment * (1 + r + ... + r^(n-1)),               *)
(* with r the monthly factor of R, an irrational number at the rates the   *)
(* scan visits.  For initloan > 0 and repayment + target > 0 this          *)
(* polynomial in r has one sign change in its coefficients, so the balance *)
(* is below the target exactly at the rates below one crossing rate: the   *)
(* comparison is modelled by that crossing rate, `crossing`, which is any  *)
(* number of 1e-5 percent.                                                 *)

\* lines 72-73: the probe is built, and its repayment overridden; the two objects
\* after the two statements
Probe(obj, rate) ==
    MortgageFields(obj.housevalue, obj.initloan, Rat(rate, RateScale), obj.term,
                   Zero, Zero, TRUE)

\* Variant: the assignment of line 73 turned round, self.repayment = meff.repayment
ProbeOverrideOnSelf(obj, probe) ==
    [self |-> [obj EXCEPT !.repayment = probe.repayment], meff |-> probe]

ProbeOverride(obj, probe) ==
    [self |-> obj, meff |-> [probe EXCEPT !.repayment = obj.repayment]]

\* lines 74-75: effloan = meff.remaining_loan(npayments); effloan < loan
EffLoanBelow(probe, target, npayments, rate, crossing) ==
    IF npayments <= 0
    THEN Less(MortgageRemainingLoan(probe, npayments), target)
    ELSE rate < crossing

\* Variant: the scan starts from rate 0 instead of 0.1
ScanStartAtZero == [effectiverate |-> 0, deltarate |-> StartDelta, done |-> FALSE]

\* lines 66-67
ScanStart == [effectiverate |-> StartRate, deltarate |-> StartDelta, done |-> FALSE]

\* Variant: line 78 left out, the rate is not stepped back before the step shrinks
ScanBodyNoStepBack(s, below) ==
    IF below
    THEN [s EXCEPT !.effectiverate = @ + s.deltarate]
    ELSE [effectiverate |-> s.effectiverate,
          deltarate     |-> s.deltarate \div Shrink,
          done          |-> s.deltarate \div Shrink = StopDelta]

\* lines 75-81: one iteration of the loop on the locals s
ScanBody(s, below) ==
    IF below
    THEN [s EXCEPT !.effectiverate = @ + s.deltarate]
    ELSE [effectiverate |-> s.effectiverate - s.deltarate,
          deltarate     |-> s.deltarate \div Shrink,
          done          |-> s.deltarate \div Shrink = StopDelta]

\* the whole loop, for a caller that runs it to its end
RECURSIVE ScanRun(_, _, _, _, _)
ScanRun(obj, target, npayments, crossing, s) ==
    IF s.done THEN s.effectiverate
    ELSE ScanRun(obj, target, npayments, crossing,
                 ScanBody(s, EffLoanBelow(ProbeOverride(obj, Probe(obj, s.effectiverate)).meff,
                                          target, npayments, s.effectiverate, crossing)))

-----------------------------------------------------------------------------
(* class MortgageSequence                                                  *)

\* Variant: line 157 assigns the period's cash balance instead of adding it
RecordedCashAssigned(st, months, made) ==
    IF ~made.ok THEN [st EXCEPT !.ok = FALSE]
    ELSE [ok            |-> TRUE,
          mortgages     |-> Append(st.mortgages, [term |-> months, mortgage |-> made.obj]),
          remainingterm |-> st.remainingterm - months,
          remainingloan |-> MortgageRemainingLoan(made.obj, months),
          cashbalance   |-> made.obj.cashbalance]

\* lines 154-157: the period is recorded and the loop's locals move on
Recorded(st, months, made) ==
    IF ~made.ok THEN [st EXCEPT !.ok = FALSE]
    ELSE [ok            |-> TRUE,
          mortgages     |-> Append(st.mortgages, [term |-> months, mortgage |-> made.obj]),
          remainingterm |-> st.remainingterm - months,
          remainingloan |-> MortgageRemainingLoan(made.obj, months),
          cashbalance   |-> Add(st.cashbalance, made.obj.cashbalance)]

\* lines 151-157: one iteration of the loop over the period specs
Period(housevalue, st, mortgageinfo) ==
    Recorded(st, mortgageinfo.term * MonthsPerYear,
             Mortgage(housevalue, st.remainingloan, mortgageinfo.rate,
                      st.remainingterm \div MonthsPerYear, mortgageinfo.fee,
                      mortgageinfo.cashback, mortgageinfo.borrowfee))

RECURSIVE Periods(_, _, _)
Periods(housevalue, st, infos) ==
    IF infos = <<>> \/ ~st.ok THEN st
    ELSE Periods(housevalue, Period(housevalue, st, Head(infos)), Tail(infos))

\* sum(term for term, mort in ms)
RECURSIVE SumTerms(_)
SumTerms(ms) == IF ms = <<>> THEN 0 ELSE ms[1].term + SumTerms(Tail(ms))

\* MortgageSequence.calc_repayment: the average repayment, weighted by the terms
RECURSIVE WeightedRepayment(_, _)
WeightedRepayment(ms, term) ==
    IF ms = <<>> THEN Zero
    ELSE Add(WeightedRepayment(SubSeq(ms, 1, Len(ms) - 1), term),
             Div(Mul(ms[Len(ms)].mortgage.repayment, Rat(ms[Len(ms)].term, 1)), Rat(term, 1)))

\* Variant: line 181 with < 0 for <= 0, a boundary goes to the following period
RECURSIVE SeqRemainingLoanStrict(_, _)
SeqRemainingLoanStrict(ms, remainingpayments) ==
    IF ms = <<>> THEN NoneValue
    ELSE IF remainingpayments - ms[1].term < 0
         THEN Ret(MortgageRemainingLoan(ms[1].mortgage, remainingpayments))
         ELSE SeqRemainingLoanStrict(Tail(ms), remainingpayments - ms[1].term)

\* MortgageSequence.remaining_loan: None when the walk falls off the list
RECURSIVE SeqRemainingLoan(_, _)
SeqRemainingLoan(ms, remainingpayments) ==
    IF ms = <<>> THEN NoneValue
    ELSE IF remainingpayments - ms[1].term <= 0
         THEN Ret(MortgageRemainingLoan(ms[1].mortgage, remainingpayments))
         ELSE SeqRemainingLoan(Tail(ms), remainingpayments - ms[1].term)

\* remaining_loan of either class
RemainingLoan(obj, npayments) ==
    IF obj.kind = "MortgageSequence"
    THEN SeqRemainingLoan(obj.mortgages, npayments)
    ELSE Ret(MortgageRemainingLoan(obj, npayments))

\* Variant: line 161 left out, the last period keeps its stated length
LastLengthStated(ms, months) == ms

\* line 161: the last period's length is what the others leave of the term
LastLength(ms, months) ==
    [ms EXCEPT ![Len(ms)].term = months - SumTerms(SubSeq(ms, 1, Len(ms) - 1))]

\* lines 141-163: the fields once the periods are built, the rate not yet set
SequenceFields(housevalue, principal, months, cashbalance, ms) ==
    [kind        |-> "MortgageSequence",
     housevalue  |-> housevalue,
     rate        |-> MonthlyRate(Zero),
     term        |-> months,
     initloan    |-> principal,
     loan        |-> ms[1].mortgage.loan,
     cashbalance |-> cashbalance,
     repayment   |-> WeightedRepayment(ms, months),
     mortgages   |-> ms]

\* effective_rate_after, run to its end by a caller
EffectiveRateAfter(obj, npayments, crossing) ==
    ScanRun(obj, Sub(RemainingLoan(obj, npayments).val, obj.cashbalance), npayments,
            crossing, ScanStart)

\* line 165
WithRate(obj, crossing) ==
    [obj EXCEPT !.rate = MonthlyRate(Rat(EffectiveRateAfter(obj, obj.term, crossing),
                                         RateScale))]

Sequenced(housevalue, principal, months, st, crossing) ==
    IF ~st.ok THEN Failed("ZeroDivisionError")
    ELSE Built(WithRate(SequenceFields(housevalue, principal, months, st.cashbalance,
                                       LastLength(st.mortgages, months)),
                        crossing))

\* MortgageSequence.__init__; crossing is the crossing rate of the scan it runs
MortgageSequence(housevalue, principal, term, infos, crossing) ==
    Sequenced(housevalue, principal, term * MonthsPerYear,
              Periods(housevalue,
                      [ok |-> TRUE, mortgages |-> <<>>,
                       remainingterm |-> term * MonthsPerYear,
                       remainingloan |-> principal, cashbalance |-> Zero],
                      infos),
              crossing)

-----------------------------------------------------------------------------
(* The inputs the model draws.                                             *)

Amounts(lo, hi) == {Rat(i, 1) : i \in lo..hi}

\* the annual rate, in percent, whose monthly factor is r
AnnualRate(r) == Mul(Rat(Percent, 1), Sub(Pow(r, MonthsPerYear), One))

Rates == {AnnualRate(Rat(1, 1)), AnnualRate(Rat(2, 1)), AnnualRate(Rat(3, 2))}

SeqRates == {AnnualRate(Rat(1, 1)), AnnualRate(Rat(2, 1))}

\* b^k stays below 2^IntBits: the powers of the monthly factor fit the integers
RECURSIVE PowerFits(_, _, _)
PowerFits(b, k, acc) ==
    IF k <= 0 THEN TRUE
    ELSE IF acc * b > 2 ^ IntBits THEN FALSE
    ELSE PowerFits(b, k - 1, acc * b)

Larger(r) == Max(r.n, r.d)

Representable(rate, months) == PowerFits(Larger(Value(MonthlyRate(rate))), months, 1)

NoArgs ==
    [ctor |-> "none", housevalue |-> Zero, loan |-> Zero, rate |-> Zero, term |-> 0,
     fee |-> Zero, cashback |-> Zero, borrowfee |-> TRUE, periods |-> <<>>, crossing |-> 0]

MortgageArgs ==
    {[NoArgs EXCEPT !.ctor = "Mortgage", !.housevalue = h, !.loan = l, !.rate = r,
                    !.term = t, !.fee = f, !.cashback = c, !.borrowfee = b] :
        h \in Amounts(0, MaxHouseValue), l \in Amounts(-1, MaxLoan),
        r \in Rates, t \in -1..MaxTermYears, f \in Amounts(0, MaxFee),
        c \in Amounts(0, MaxCashback), b \in BOOLEAN}

\* the offers a period spec is drawn from: no fee, a fee borrowed with a
\* cashback, a fee paid up front
Offers ==
    {[fee |-> Zero, cashback |-> Zero, borrowfee |-> TRUE],
     [fee |-> Rat(MaxFee, 1), cashback |-> Rat(MaxCashback, 1), borrowfee |-> TRUE],
     [fee |-> Rat(MaxFee, 1), cashback |-> Zero, borrowfee |-> FALSE]}

PeriodSpecs ==
    {[rate |-> r, term |-> t, fee |-> o.fee, cashback |-> o.cashback,
      borrowfee |-> o.borrowfee] :
        r \in SeqRates, t \in 1..MaxPeriodYears, o \in Offers}

PeriodLists == UNION {[1..k -> PeriodSpecs] : k \in MinPeriods..MaxPeriods}

\* every period's model is built on the term remaining when it is reached, and
\* on a loan that has taken a year's powers of the factor of the period before
\* (size); a period that is stated longer than that term is followed at the
\* rate 0 only
RECURSIVE PeriodsRepresentable(_, _, _)
PeriodsRepresentable(infos, remainingterm, size) ==
    IF infos = <<>> \/ remainingterm <= 0 THEN TRUE
    ELSE /\ PowerFits(Larger(Value(MonthlyRate(infos[1].rate))), remainingterm, size)
         /\ infos[1].rate = Zero \/ infos[1].term * MonthsPerYear <= remainingterm
         /\ PeriodsRepresentable(Tail(infos), remainingterm - infos[1].term * MonthsPerYear,
                                 2 ^ MonthsPerYear)

SequenceArgs ==
    {[NoArgs EXCEPT !.ctor = "MortgageSequence", !.housevalue = h, !.loan = l,
                    !.term = t, !.periods = ps, !.crossing = StartRate + StopDelta] :
        h \in {Rat(MaxHouseValue, 1)}, l \in {Rat(MaxLoan, 1)},
        t \in 1..MaxTermYears, ps \in PeriodLists}

\* the mortgages the scan is followed on
ScanArgs ==
    {a \in MortgageArgs :
        /\ a.housevalue = One /\ a.loan = Rat(MaxLoan, 1) /\ a.term = 1
        /\ a.fee \in {Zero, Rat(MaxFee, 1)}
        /\ a.cashback \in {Zero, Rat(MaxCashback, 1)}}

\* the sequences the scan is followed on: two periods of a year at the rate 0
ScanSeqArgs ==
    {a \in SequenceArgs :
        /\ Len(a.periods) = MinPeriods /\ a.term = MinPeriods
        /\ \A i \in 1..Len(a.periods) : a.periods[i].rate = Zero /\ a.periods[i].term = 1}

\* the crossing rates, in units of 1e-5 percent: a digit for each step size of
\* the scan, and two rates below zero
Digits == (0..MaxDigit) \cup {Shrink - 1}

Crossings ==
    {(((a * Shrink + b) * Shrink + c) * Shrink + d) * Shrink + e :
        a \in 0..MaxDigit, b \in Digits, c \in Digits, d \in Digits, e \in 0..MaxDigit}
    \cup {-StartDelta, -(Shrink \div 2)}

\* the scan is followed up to this rate
RateCap == (MaxDigit + 2) * StartDelta

-----------------------------------------------------------------------------
(* The operations.                                                         *)

Init ==
    /\ args = NoArgs
    /\ self = NoObject
    /\ pc = "new"
    /\ call = [op |-> "none", n |-> 0]
    /\ result = NoneValue
    /\ loan = Zero
    /\ effectiverate = 0
    /\ deltarate = 0
    /\ meff = NoObject
    /\ rstar = 0

Constructed(a, made) ==
    /\ args' = a
    /\ self' = made.obj
    /\ pc' = IF made.ok THEN "returned" ELSE "raised"
    /\ call' = [op |-> "__init__", n |-> 0]
    /\ result' = IF made.ok THEN NoneValue ELSE Raise(made.err)
    /\ UNCHANGED <<loan, effectiverate, deltarate, meff, rstar>>

\* Mortgage(housevalue, loan, rate, term, fee, cashback, borrowfee)
NewMortgage(Args) ==
    /\ pc = "new"
    /\ \E a \in Args :
          /\ a.term > 0 => Representable(a.rate, a.term * MonthsPerYear)
          /\ Constructed(a, Mortgage(a.housevalue, a.loan, a.rate, a.term, a.fee,
                                     a.cashback, a.borrowfee))

\* MortgageSequence(housevalue, loan, term, mortgage1, mortgage2, *mortgages)
NewMortgageSequence(Args) ==
    /\ pc = "new"
    /\ \E a \in Args :
          /\ PeriodsRepresentable(a.periods, a.term * MonthsPerYear, 1)
          /\ Constructed(a, MortgageSequence(a.housevalue, a.loan, a.term, a.periods,
                                             a.crossing))

\* the payment counts a caller asks about: up to the term, and past it
QueryPayments(obj) == 0..(obj.term + Overrun)

\* self.remaining_loan(n)
CallRemainingLoan ==
    /\ pc = "idle"
    /\ \E n \in QueryPayments(self) :
          /\ call' = [op |-> "remaining_loan", n |-> n]
          /\ result' = RemainingLoan(self, n)
    /\ pc' = "returned"
    /\ UNCHANGED <<args, self, loan, effectiverate, deltarate, meff, rstar>>

\* self.loan_to_value()
CallLoanToValue ==
    /\ pc = "idle"
    /\ call' = [op |-> "loan_to_value", n |-> 0]
    /\ result' = LoanToValue(self)
    /\ pc' = "returned"
    /\ UNCHANGED <<args, self, loan, effectiverate, deltarate, meff, rstar>>

\* the caller takes the value returned and goes on to its next call; the locals
\* of the call are gone
Resume ==
    /\ pc = "returned"
    /\ pc' = "idle"
    /\ call' = [op |-> "none", n |-> 0]
    /\ result' = NoneValue
    /\ loan' = Zero
    /\ effectiverate' = 0
    /\ deltarate' = 0
    /\ meff' = NoObject
    /\ rstar' = 0
    /\ UNCHANGED <<args, self>>

\* the payment counts the effective rate is asked after
ScanPayments(obj) == {0, obj.term}

\* line 65 and lines 66-67, or the TypeError of None - cashbalance
Started(remaining, crossing) ==
    IF remaining.kind = "None"
    THEN /\ pc' = "returned"
         /\ result' = Raise("TypeError")
         /\ UNCHANGED <<loan, effectiverate, deltarate, rstar>>
    ELSE /\ pc' = "scan"
         /\ result' = NoneValue
         /\ loan' = Sub(remaining.val, self.cashbalance)
         /\ effectiverate' = ScanStart.effectiverate
         /\ deltarate' = ScanStart.deltarate
         /\ rstar' = crossing

\* self.effective_rate_after(n), up to the loop
CallEffectiveRateAfter ==
    /\ pc = "idle"
    /\ \E n \in ScanPayments(self) :
          \E c \in IF n = 0 THEN {0} ELSE Crossings :
             /\ call' = [op |-> "effective_rate_after", n |-> n]
             /\ Started(RemainingLoan(self, n), c)
    /\ UNCHANGED <<args, self, meff>>

\* the locals and the objects after an iteration; the return at the break
Scanned(heap, s) ==
    /\ self' = heap.self
    /\ meff' = heap.meff
    /\ effectiverate' = s.effectiverate
    /\ deltarate' = s.deltarate
    /\ pc' = IF s.done THEN "returned" ELSE "scan"
    /\ result' = IF s.done THEN Ret(Rat(s.effectiverate, RateScale)) ELSE result
    /\ UNCHANGED <<args, call, loan, rstar>>

Iterated(heap, below) ==
    /\ below => effectiverate < RateCap
    /\ Scanned(heap, ScanBody([effectiverate |-> effectiverate,
                               deltarate |-> deltarate, done |-> FALSE], below))

Probed(heap) ==
    Iterated(heap, EffLoanBelow(heap.meff, loan, call.n, effectiverate, rstar))

\* one iteration of the loop of effective_rate_after, lines 71-81
ScanStep ==
    /\ pc = "scan"
    /\ Probed(ProbeOverride(self, Probe(self, effectiverate)))

Next == NewMortgage(MortgageArgs) \/ CallRemainingLoan \/ CallLoanToValue \/ Resume

Spec == Init /\ [][Next]_vars

SeqNext ==
    NewMortgageSequence(SequenceArgs) \/ CallRemainingLoan \/ CallLoanToValue \/ Resume

SeqSpec == Init /\ [][SeqNext]_vars

ScanNext ==
    \/ NewMortgage(ScanArgs)
    \/ NewMortgageSequence(ScanSeqArgs)
    \/ CallRemainingLoan
    \/ CallLoanToValue
    \/ CallEffectiveRateAfter
    \/ ScanStep
    \/ Resume

ScanSpec == Init /\ [][ScanNext]_vars

-----------------------------------------------------------------------------
(* What the claims speak of.                                               *)

Returned(op) == pc = "returned" /\ call.op = op

Positive(x) == Less(Zero, x)

\* a valid single-period mortgage: positive house value, loan and term
ValidMortgage ==
    /\ args.ctor = "Mortgage"
    /\ Positive(args.housevalue)
    /\ Positive(args.loan)
    /\ args.term > 0

\* |x| <= scale / 10^6, for scale > 0
WithinTolerance(x, scale) == Abs(x.n) <= (scale.n * x.d) \div ((10 ^ 6) * scale.d)

\* the sum of the recorded lengths of the first i periods
CumulativeLength(ms, i) == SumTerms(SubSeq(ms, 1, i))

\* the sum of the stated lengths, in months, of the first i period specs
RECURSIVE StatedLength(_, _)
StatedLength(infos, i) ==
    IF i <= 0 THEN 0 ELSE StatedLength(infos, i - 1) + infos[i].term * MonthsPerYear

RECURSIVE SumCash(_)
SumCash(ms) ==
    IF ms = <<>> THEN Zero ELSE Add(ms[1].mortgage.cashbalance, SumCash(Tail(ms)))

\* the rate the scan ends on when the probe is never below the target
FloorRate ==
    StartRate - StartDelta - (StartDelta \div Shrink)
              - (StartDelta \div (Shrink * Shrink))
              - (StartDelta \div (Shrink * Shrink * Shrink))

\* a sequence was constructed from valid period specs: every stated length is
\* positive, and the stated lengths of all periods but the last sum to less than
\* the term
ValidSequence ==
    /\ args.ctor = "MortgageSequence"
    /\ self.kind = "MortgageSequence"
    /\ \A i \in 1..Len(args.periods) : args.periods[i].term > 0
    /\ StatedLength(args.periods, Len(args.periods) - 1) < args.term * MonthsPerYear

\* the fee that period i adds to the loan it takes over
BorrowedFee(i) == IF args.periods[i].borrowfee THEN args.periods[i].fee ELSE Zero

\* |x - y| <= tol for a tolerance tol < 1: numbers whose integer parts are two or
\* more apart are not compared further
Within(x, y, tol) ==
    /\ Abs((x.n \div x.d) - (y.n \div y.d)) < 2
    /\ ~Less(tol, Sub(x, y))
    /\ ~Less(tol, Sub(y, x))

\* a number of 1e-5 percent as a rate in percent
Units(k) == Rat(k, RateScale)

-----------------------------------------------------------------------------
(* C1: for a valid single-period Mortgage with monthly factor above 1, any *)
(* fee and either choice of borrowing it, remaining_loan(term_months) is   *)
(* zero: the repayment computed at construction clears the stored loan in  *)
(* exactly term_months payments.                                           *)
C1_RepaymentClearsLoan ==
    (/\ Returned("remaining_loan")
     /\ ValidMortgage
     /\ Less(One, Value(self.rate))
     /\ call.n = self.term)
    => result = Ret(Zero)

C1_Witness ==
    /\ Returned("remaining_loan")
    /\ ValidMortgage
    /\ Less(One, Value(self.rate))
    /\ call.n = self.term
    /\ Positive(args.fee)
    /\ args.borrowfee
    /\ self.loan = Add(args.loan, args.fee)
    /\ result = Ret(Zero)

(* C5 as stated: remaining_loan(n) is zero, within 1e-6 of the loan, for   *)
(* every n >= term_months, also past the end of the term.                  *)
C5_ZeroFromTermOn ==
    (/\ Returned("remaining_loan")
     /\ ValidMortgage
     /\ call.n >= self.term)
    => WithinTolerance(result.val, self.loan)

(* C5, amended: remaining_loan(n) is zero at n = term_months; for every    *)
(* n > term_months it is negative, minus the repayment times               *)
(* 1 + r + ... + r^(n - term_months - 1).                                  *)
C5_ZeroAtTermNegativePast ==
    (/\ Returned("remaining_loan")
     /\ ValidMortgage
     /\ call.n >= self.term)
    => /\ call.n = self.term => result = Ret(Zero)
       /\ call.n > self.term =>
            /\ Less(result.val, Zero)
            /\ result.val = Neg(Mul(self.repayment,
                                    SumPow(Value(self.rate), call.n - self.term)))

C5_Witness ==
    /\ Returned("remaining_loan")
    /\ ValidMortgage
    /\ call.n = self.term + Overrun
    /\ Less(result.val, Neg(self.repayment))

(* C6: a Mortgage built with a non-positive house value, a non-positive    *)
(* loan or a non-positive term is rejected: the constructor raises and no  *)
(* object is produced.                                                     *)
C6_InvalidInputRejected ==
    (/\ pc # "new"
     /\ \/ ~Positive(args.housevalue)
        \/ ~Positive(args.loan)
        \/ args.term <= 0)
    => pc = "raised" /\ self = NoObject

(* C3: for every valid single-period Mortgage and every payment count the  *)
(* scan of effective_rate_after terminates, it never increments the rate   *)
(* forever: while the loop runs, the climb it is on meets a probe that is  *)
(* not below the target within the steps one step size can take, after     *)
(* which the step shrinks.                                                 *)
C3_ScanTerminates ==
    (pc = "scan" /\ ValidMortgage)
    => \E k \in 0..(Shrink + MaxDigit) :
          ~EffLoanBelow(ProbeOverride(self, Probe(self, effectiverate + k * deltarate)).meff,
                        loan, call.n, effectiverate + k * deltarate, rstar)

(* C4 as stated: with fee = 0 and cashback = 0, effective_rate_after(0)    *)
(* returns the nominal annual rate within 1e-3 percentage points.          *)
C4_NominalRateAtZero ==
    (/\ Returned("effective_rate_after")
     /\ ValidMortgage
     /\ args.fee = Zero /\ args.cashback = Zero
     /\ call.n = 0)
    => Within(result.val, args.rate, Units(Shrink * Shrink * StopDelta))

(* C4, amended: with fee = 0 and cashback = 0, effective_rate_after(0)     *)
(* returns 0.1 - 0.1 - 0.01 - 0.001 - 0.0001 = -0.0111 whatever the        *)
(* nominal rate: after 0 payments the probe's balance is the target at     *)
(* every rate, and the scan only steps back.                               *)
C4_FloorRateAtZero ==
    (/\ Returned("effective_rate_after")
     /\ ValidMortgage
     /\ args.fee = Zero /\ args.cashback = Zero
     /\ call.n = 0)
    => result = Ret(Units(FloorRate))

C4_Witness ==
    /\ Returned("effective_rate_after")
    /\ ValidMortgage
    /\ args.fee = Zero /\ args.cashback = Zero
    /\ call.n = 0
    /\ Positive(args.rate)
    /\ result = Ret(Units(FloorRate))

(* C7: the queries are pure: no step of remaining_loan, loan_to_value or   *)
(* effective_rate_after changes a field of the object it is called on; the *)
(* repayment override of the scan lands on the probe.                      *)
C7_QueriesLeaveObject ==
    [][self # NoObject =>
         /\ self' = self
         /\ (pc = "scan" => meff'.repayment = self.repayment)]_vars

C7_Witness ==
    /\ Returned("effective_rate_after")
    /\ self.kind = "MortgageSequence"
    /\ meff.kind = "Mortgage"
    /\ meff.repayment = self.repayment
    /\ meff.initloan = self.initloan
    /\ result.kind = "value"

(* C10 as stated: when the probe's balance crosses the target at a rate    *)
(* R* >= 0, the rate the scan returns differs from R* by at most 1e-5.     *)
C10_ToleranceOneStep ==
    (/\ Returned("effective_rate_after")
     /\ result.kind = "value"
     /\ call.n >= 1
     /\ rstar >= 0)
    => Within(result.val, Units(rstar), Units(StopDelta))

(* C10, amended: the returned rate is below R*, by more than 0 and by at   *)
(* most 1e-4, the last step size the scan climbs with.                     *)
C10_ToleranceLastStep ==
    (/\ Returned("effective_rate_after")
     /\ result.kind = "value"
     /\ call.n >= 1
     /\ rstar >= 0)
    => /\ Less(result.val, Units(rstar))
       /\ ~Less(Units(Shrink * StopDelta), Sub(Units(rstar), result.val))

C10_Witness ==
    /\ Returned("effective_rate_after")
    /\ call.n >= 1
    /\ rstar > StartRate
    /\ result.val = Units(rstar - Shrink * StopDelta)

(* C2 as stated: at the boundary between period i and period i+1 the       *)
(* sequence's remaining_loan equals period i's model's remaining_loan at   *)
(* the period's length and also period i+1's model's remaining_loan(0),    *)
(* whatever the fee of period i+1.                                         *)
C2_ContinuousAtBoundary ==
    (Returned("remaining_loan") /\ ValidSequence)
    => \A i \in 1..(Len(self.mortgages) - 1) :
          call.n = CumulativeLength(self.mortgages, i)
          => /\ result = Ret(MortgageRemainingLoan(self.mortgages[i].mortgage,
                                                   self.mortgages[i].term))
             /\ result = Ret(MortgageRemainingLoan(self.mortgages[i + 1].mortgage, 0))

(* C2, amended: at the boundary the sequence's remaining_loan equals       *)
(* period i's model's remaining_loan at the period's length and the        *)
(* initial loan of period i+1's model; period i+1's model's                *)
(* remaining_loan(0) is that amount plus the fee of period i+1 when the    *)
(* fee is borrowed.                                                        *)
C2_BoundaryBeforeFee ==
    (Returned("remaining_loan") /\ ValidSequence)
    => \A i \in 1..(Len(self.mortgages) - 1) :
          call.n = CumulativeLength(self.mortgages, i)
          => /\ result = Ret(MortgageRemainingLoan(self.mortgages[i].mortgage,
                                                   self.mortgages[i].term))
             /\ result.val = self.mortgages[i + 1].mortgage.initloan
             /\ MortgageRemainingLoan(self.mortgages[i + 1].mortgage, 0)
                  = Add(result.val, BorrowedFee(i + 1))

C2_Witness ==
    /\ Returned("remaining_loan")
    /\ ValidSequence
    /\ call.n = CumulativeLength(self.mortgages, 1)
    /\ Positive(BorrowedFee(2))
    /\ Less(One, Value(self.mortgages[1].mortgage.rate))
    /\ result.val = self.mortgages[2].mortgage.initloan
    /\ Less(result.val, MortgageRemainingLoan(self.mortgages[2].mortgage, 0))

(* C8: for a MortgageSequence built from valid period specs the recorded   *)
(* lengths sum to term_months, and for every n in 0..term_months           *)
(* remaining_loan(n) returns a value, that of the model of the first       *)
(* period i whose cumulative length is >= n, at n less the lengths of the  *)
(* periods before i.                                                       *)
C8_WalkCoversTerm ==
    ValidSequence
    => /\ SumTerms(self.mortgages) = self.term
       /\ (Returned("remaining_loan") /\ call.n <= self.term)
          => /\ result.kind = "value"
             /\ \E i \in 1..Len(self.mortgages) :
                   /\ CumulativeLength(self.mortgages, i) >= call.n
                   /\ \A j \in 1..(i - 1) : CumulativeLength(self.mortgages, j) < call.n
                   /\ result.val =
                        MortgageRemainingLoan(self.mortgages[i].mortgage,
                                              call.n - CumulativeLength(self.mortgages, i - 1))

C8_Witness ==
    /\ Returned("remaining_loan")
    /\ ValidSequence
    /\ self.mortgages[Len(self.mortgages)].term
         # args.periods[Len(args.periods)].term * MonthsPerYear
    /\ call.n = self.term
    /\ result = Ret(MortgageRemainingLoan(self.mortgages[Len(self.mortgages)].mortgage,
                                          self.mortgages[Len(self.mortgages)].term))

(* C9: after construction, the initial loan of period i+1's model is       *)
(* period i's model's remaining_loan at period i's stated length, the term *)
(* of period i+1's model is the term less the stated lengths of periods    *)
(* 1..i, and the sequence's cash balance is the sum of the cash balances   *)
(* of its period models.                                                   *)
C9_PeriodsChain ==
    (args.ctor = "MortgageSequence" /\ self.kind = "MortgageSequence")
    => /\ \A i \in 1..(Len(self.mortgages) - 1) :
             /\ self.mortgages[i + 1].mortgage.initloan
                  = MortgageRemainingLoan(self.mortgages[i].mortgage,
                                          args.periods[i].term * MonthsPerYear)
             /\ self.mortgages[i + 1].mortgage.term
                  = self.term - StatedLength(args.periods, i)
       /\ self.cashbalance = SumCash(self.mortgages)

C9_Witness ==
    /\ Returned("__init__")
    /\ self.kind = "MortgageSequence"
    /\ Less(self.mortgages[1].mortgage.cashbalance, Zero)
    /\ Positive(self.mortgages[2].mortgage.cashbalance)
    /\ Less(One, Value(self.mortgages[1].mortgage.rate))
    /\ Less(self.mortgages[2].mortgage.initloan, self.initloan)
    /\ self.cashbalance = Add(self.mortgages[1].mortgage.cashbalance,
                              self.mortgages[2].mortgage.cashbalance)

====
